---- MODULE Spec2Model ----
(***************************************************************************)
(* State-machine model of the QRCodeScanner component                      *)
(* (src/src/components/QRCodeScanner.tsx).                                 *)
(*                                                                         *)
(* The component is a React function component: four useState cells, one   *)
(* useRef cell, one effect keyed on the `open` prop, and four async        *)
(* functions.  JavaScript runs every handler to its next `await`; the      *)
(* model has one action per such run-to-await segment (an event handler,   *)
(* an effect run, or the continuation of a settled promise).               *)
(*                                                                         *)
(* Collaborators outside the repository (navigator.permissions,            *)
(* navigator.mediaDevices, Html5Qrcode, the parent that owns `open`) are   *)
(* the environment: every outcome they can produce is a nondeterministic   *)
(* choice.  An Html5Qrcode instance that is running honours stop(): the    *)
(* promise resolves and the camera is released; stop() on an instance that *)
(* is not running may resolve or reject.  Decode and frame-error callbacks *)
(* may fire for as long as an instance is running, i.e. until its stop()   *)
(* has resolved.                                                           *)
(*                                                                         *)
(* Texts that the code inspects with String.includes are sequences of      *)
(* word tokens; Includes is contiguous-subsequence search.                 *)
(*                                                                         *)
(* Spec is the component with its environment.  ClassifySpec runs the      *)
(* three error classifiers (the catch of checkCameraPermissions, the catch *)
(* of startScanning, the frame-level error callback) on their own, each on *)
(* every name, message and text of a larger set than Spec draws from.      *)
(***************************************************************************)
EXTENDS Integers, Sequences, FiniteSets, TLC

\* ---------------------------------------------------------------- bounds
MaxScanners == 2   \* Html5Qrcode instances created in one run
MaxTasks    == 2   \* checkCameraPermissions calls awaiting at one time
MaxStops    == 2   \* stopScanning calls awaiting a stop() at one time
MaxNotify   == 2   \* onScanSuccess calls counted per opened session
MaxProfileCalls == 2  \* apiClient.getProfile calls of AdminRoute in flight at one time

Scanners == 1..MaxScanners

\* ------------------------------------------------------------ the state
VARIABLES
  lifecycle,               \* "new" | "mounted" | "unmounted" (the component instance)
  open,                    \* the `open` prop
  hasMediaDevices,         \* navigator.mediaDevices.getUserMedia exists
  hasPermissionsApi,       \* navigator.permissions.query exists
  isScanning,              \* useState(false)
  error,                   \* useState<string | null>(null)
  permissionError,         \* useState(false)
  isRequestingPermission,  \* useState(false)
  scannerRef,              \* useRef: 0 is null, else an instance id
  scanner,                 \* instance id -> "none"|"starting"|"running"|"notStarted"
  stopping,                \* instance id -> stopScanning calls awaiting its stop()
  queryPending,            \* checkCameraPermissions calls awaiting permissions.query
  gumPending,              \* checkCameraPermissions calls awaiting getUserMedia
  liveProbes,              \* probe streams acquired whose tracks are not stopped
  successCalls,            \* onScanSuccess calls since the dialog was last opened
  notified,                \* the caller's callbacks invoked by the last step, in order
  uncaught,                \* an async function of the component rejected
  calls,                   \* every call the last step made on a collaborator, in order
  input,                   \* the failure under classification (ClassifySpec only)
  adminRoute,              \* the AdminRoute component and what it acts on
  profilePage,             \* the change-password form of the Profile page
  languageSwitcher         \* the LanguageSwitcher component and the document

vars == <<lifecycle, open, hasMediaDevices, hasPermissionsApi, isScanning, error,
          permissionError, isRequestingPermission, scannerRef, scanner, stopping,
          queryPending, gumPending, liveProbes, successCalls, notified, uncaught,
          calls, input, adminRoute, profilePage, languageSwitcher>>

\* The variables of the QRCodeScanner, and those of the other components.
scannerVars == <<lifecycle, open, hasMediaDevices, hasPermissionsApi, isScanning,
                 error, permissionError, isRequestingPermission, scannerRef, scanner,
                 stopping, queryPending, gumPending, liveProbes, successCalls,
                 notified, uncaught, calls, input>>

otherVars == <<adminRoute, profilePage, languageSwitcher>>

\* --------------------------------------------------------------- texts
Null == <<"null">>   \* the null of useState<string | null>; no message equals it

Includes(text, pat) ==
  \E i \in 0..(Len(text) - Len(pat)) : \A j \in 1..Len(pat) : text[i + j] = pat[j]

MsgUnsupported ==
  <<"Camera", "API", "is", "not", "supported", "in", "this", "browser">>
MsgQueryDenied ==
  <<"Camera", "permission", "is", "denied.", "Please", "enable", "camera", "access",
    "in", "your", "browser", "settings", "and", "try", "again.">>
MsgProbeDenied ==
  <<"Camera", "permission", "is", "required", "to", "scan", "QR", "codes.", "Please",
    "allow", "camera", "access", "and", "try", "again.">>
MsgNotFound ==
  <<"No", "camera", "found.", "Please", "connect", "a", "camera", "and", "try", "again.">>
MsgInUse ==
  <<"Camera", "is", "already", "in", "use", "by", "another", "application.", "Please",
    "close", "other", "apps", "using", "the", "camera", "and", "try", "again.">>
MsgProbeFallback ==
  <<"Failed", "to", "access", "camera.", "Please", "check", "your", "browser", "settings.">>
MsgProbeNonError ==
  <<"Failed", "to", "access", "camera.", "Please", "ensure", "camera", "permissions",
    "are", "granted.">>
MsgFramePermission ==
  <<"Camera", "permission", "was", "denied.", "Please", "allow", "camera", "access",
    "and", "try", "again.">>
MsgStartPermission ==
  <<"Camera", "permission", "is", "required.", "Please", "allow", "camera", "access",
    "and", "try", "again.">>
MsgStartFallback ==
  <<"Failed", "to", "start", "camera.", "Please", "ensure", "camera", "permissions",
    "are", "granted.">>

\* A thrown value: an Error (with name and message) or anything else.
Err(n, m) == [isError |-> TRUE, name |-> n, message |-> m]
NonError  == [isError |-> FALSE, name |-> "", message |-> <<>>]

\* No failure is under classification.
NoInput == [channel |-> "none", err |-> NonError, text |-> <<>>, handled |-> FALSE]

\* What getUserMedia may reject with.
AcquireErrors ==
  { Err("NotAllowedError", <<"Permission", "denied">>),
    Err("NotReadableError", <<"Could", "not", "start", "video", "source">>),
    Err("AbortError", <<>>),
    NonError }

\* What new Html5Qrcode(...) / html5QrCode.start(...) may throw or reject with.
StartErrors ==
  { Err("NotAllowedError", <<"Permission", "denied">>),
    Err("Error", <<"Camera", "streaming", "not", "supported">>),
    NonError }

\* Texts the frame-level error callback may receive.
FrameErrors ==
  { <<"No", "MultiFormat", "Readers", "were", "able", "to", "detect", "the", "code">>,
    <<"QR", "code", "parse", "error", "NotAllowedError">>,
    <<"NotAllowedError">>,
    <<"decoder", "crashed">> }

\* ------------------------------------------- the component as a record
\* The cells a handler reads and writes, as one value: a handler is a function
\* from this record to this record, and an action applies it to the variables.
Here ==
  [ lifecycle |-> lifecycle, isScanning |-> isScanning, error |-> error,
    permissionError |-> permissionError,
    isRequestingPermission |-> isRequestingPermission, scannerRef |-> scannerRef,
    scanner |-> scanner, stopping |-> stopping, queryPending |-> queryPending,
    gumPending |-> gumPending, liveProbes |-> liveProbes,
    successCalls |-> successCalls, notified |-> <<>>, uncaught |-> uncaught,
    calls |-> <<>> ]

RECURSIVE Sum(_, _)
Sum(f, S) ==
  IF S = {} THEN 0 ELSE LET x == CHOOSE y \in S : TRUE IN f[x] + Sum(f, S \ {x})

\* The model's bounds, as a guard on the state an action leads to.
InBounds(st) ==
  /\ st.queryPending + st.gumPending <= MaxTasks
  /\ Sum(st.stopping, Scanners) <= MaxStops
  /\ st.successCalls <= MaxNotify

\* React drops a state update made after the component has unmounted.
setIsScanning(st, v) ==
  IF st.lifecycle = "unmounted" THEN st ELSE [st EXCEPT !.isScanning = v]
setError(st, v) ==
  IF st.lifecycle = "unmounted" THEN st ELSE [st EXCEPT !.error = v]
setPermissionError(st, v) ==
  IF st.lifecycle = "unmounted" THEN st ELSE [st EXCEPT !.permissionError = v]
setIsRequestingPermission(st, v) ==
  IF st.lifecycle = "unmounted" THEN st ELSE [st EXCEPT !.isRequestingPermission = v]

\* ----------------------------------------------------------- stopScanning
\* stopScanning up to its first await: with no instance in scannerRef it runs to
\* its end; otherwise it has called stop() on the instance and waits.
stopScanning(st) ==
  IF st.scannerRef # 0
    THEN [st EXCEPT !.stopping[st.scannerRef] = @ + 1, !.calls = @ \o <<"stop">>]
    ELSE setIsScanning(st, FALSE)

\* stopScanning with its try/catch removed: a rejected stop(), a throwing clear()
\* or a null scannerRef.current ends the function with a rejection.
stopScanningResumeNoCatch(st, s, resolved, clearOk) ==
  LET st0 == [st EXCEPT !.stopping[s] = @ - 1,
                        !.scanner[s] = IF resolved /\ @ = "running" THEN "notStarted" ELSE @]
  IN  IF resolved /\ st0.scannerRef # 0 /\ clearOk
        THEN setIsScanning([st0 EXCEPT !.scannerRef = 0], FALSE)
        ELSE [st0 EXCEPT !.uncaught = TRUE]

\* stopScanning from the settling of stop() on instance s to its end.  resolved:
\* stop() resolved (else it rejected); clearOk: clear() returned (else it threw).
\* scannerRef.current is read again after the await: null throws a TypeError
\* inside the try, and clear() lands on whichever instance the ref holds now.
stopScanningResume(st, s, resolved, clearOk) ==
  LET st0 == [st EXCEPT !.stopping[s] = @ - 1,
                        !.scanner[s] = IF resolved /\ @ = "running" THEN "notStarted" ELSE @]
      st1 == IF resolved /\ st0.scannerRef # 0
               THEN [st0 EXCEPT !.calls = @ \o <<"clear">>]
               ELSE st0
      st2 == IF resolved /\ st0.scannerRef # 0 /\ clearOk
               THEN [st1 EXCEPT !.scannerRef = 0]
               ELSE st1
  IN  setIsScanning(st2, FALSE)

\* ------------------------------------------------- checkCameraPermissions
\* The catch block of checkCameraPermissions with the `|| "Failed to access
\* camera..."` fallback dropped from the last branch.
acquisitionCatchNoFallback(st, err) ==
  LET st1 == setIsRequestingPermission(st, FALSE)
  IN  IF err.isError
        THEN IF err.name \in {"NotAllowedError", "PermissionDeniedError"}
               THEN setError(setPermissionError(st1, TRUE), MsgProbeDenied)
             ELSE IF err.name \in {"NotFoundError", "DevicesNotFoundError"}
               THEN setError(st1, MsgNotFound)
             ELSE IF err.name \in {"NotReadableError", "TrackStartError"}
               THEN setError(st1, MsgInUse)
             ELSE setError(st1, err.message)
        ELSE setError(st1, MsgProbeNonError)

\* The catch block of checkCameraPermissions testing only the standard name of
\* each failure, without the legacy aliases.
acquisitionCatchNoAliases(st, err) ==
  LET st1 == setIsRequestingPermission(st, FALSE)
  IN  IF err.isError
        THEN IF err.name = "NotAllowedError"
               THEN setError(setPermissionError(st1, TRUE), MsgProbeDenied)
             ELSE IF err.name = "NotFoundError"
               THEN setError(st1, MsgNotFound)
             ELSE IF err.name = "NotReadableError"
               THEN setError(st1, MsgInUse)
             ELSE setError(st1, IF err.message # <<>> THEN err.message
                                                      ELSE MsgProbeFallback)
        ELSE setError(st1, MsgProbeNonError)

\* The catch block of checkCameraPermissions without its first statement,
\* setIsRequestingPermission(false).
acquisitionCatchKeepsRequesting(st, err) ==
  IF err.isError
    THEN IF err.name \in {"NotAllowedError", "PermissionDeniedError"}
           THEN setError(setPermissionError(st, TRUE), MsgProbeDenied)
         ELSE IF err.name \in {"NotFoundError", "DevicesNotFoundError"}
           THEN setError(st, MsgNotFound)
         ELSE IF err.name \in {"NotReadableError", "TrackStartError"}
           THEN setError(st, MsgInUse)
         ELSE setError(st, IF err.message # <<>> THEN err.message
                                                  ELSE MsgProbeFallback)
    ELSE setError(st, MsgProbeNonError)

\* The catch block of checkCameraPermissions.
acquisitionCatch(st, err) ==
  LET st1 == setIsRequestingPermission(st, FALSE)
  IN  IF err.isError
        THEN IF err.name \in {"NotAllowedError", "PermissionDeniedError"}
               THEN setError(setPermissionError(st1, TRUE), MsgProbeDenied)
             ELSE IF err.name \in {"NotFoundError", "DevicesNotFoundError"}
               THEN setError(st1, MsgNotFound)
             ELSE IF err.name \in {"NotReadableError", "TrackStartError"}
               THEN setError(st1, MsgInUse)
             ELSE setError(st1, IF err.message # <<>> THEN err.message
                                                      ELSE MsgProbeFallback)
        ELSE setError(st1, MsgProbeNonError)

\* setIsRequestingPermission(true), then getUserMedia is called and awaited.
requestStream(st) ==
  [setIsRequestingPermission(st, TRUE) EXCEPT !.gumPending = @ + 1]

\* checkPermissionsAndStart without the capability test of checkCameraPermissions.
checkPermissionsAndStartNoCapabilityTest(st) ==
  IF hasPermissionsApi
    THEN [st EXCEPT !.queryPending = @ + 1]
    ELSE requestStream(st)

\* checkPermissionsAndStart up to its first await: the capability test, then the
\* permission query where the browser has one, else getUserMedia at once.
checkPermissionsAndStart(st) ==
  IF ~hasMediaDevices
    THEN acquisitionCatch(st, Err("Error", MsgUnsupported))
  ELSE IF hasPermissionsApi
    THEN [st EXCEPT !.queryPending = @ + 1]
  ELSE requestStream(st)

\* checkCameraPermissions without the `return false` of the "denied" branch: the
\* error is recorded and the code goes on to getUserMedia.
queryResumeNoReturn(st, state) ==
  LET st0 == [st EXCEPT !.queryPending = @ - 1]
  IN  IF state = "denied"
        THEN requestStream(setError(setPermissionError(st0, TRUE), MsgQueryDenied))
        ELSE requestStream(st0)

\* checkCameraPermissions from the settling of permissions.query.  state is
\* "granted", "prompt", "denied", or "throws" for a rejected query.
queryResume(st, state) ==
  LET st0 == [st EXCEPT !.queryPending = @ - 1]
  IN  IF state = "denied"
        THEN setError(setPermissionError(st0, TRUE), MsgQueryDenied)
        ELSE requestStream(st0)

\* ---------------------------------------------------------- startScanning
\* The catch block of startScanning showing the message of every Error that is
\* not a permission error.
startCatchPassThrough(st, err) ==
  LET st1 ==
        IF err.isError
          THEN IF \/ err.name = "NotAllowedError"
                  \/ Includes(err.message, <<"Permission">>)
                  \/ Includes(err.message, <<"permission">>)
                 THEN setError(setPermissionError(st, TRUE), MsgStartPermission)
               ELSE setError(st, err.message)
          ELSE setError(st, MsgStartFallback)
  IN  setIsScanning(st1, FALSE)

\* The catch block of startScanning.
startCatch(st, err) ==
  LET st1 ==
        IF err.isError
          THEN IF \/ err.name = "NotAllowedError"
                  \/ Includes(err.message, <<"Permission">>)
                  \/ Includes(err.message, <<"permission">>)
                 THEN setError(setPermissionError(st, TRUE), MsgStartPermission)
               ELSE IF \/ Includes(err.message, <<"camera">>)
                       \/ Includes(err.message, <<"Camera">>)
                 THEN setError(st, err.message)
               ELSE setError(st, MsgStartFallback)
          ELSE setError(st, MsgStartFallback)
  IN  setIsScanning(st1, FALSE)

FreeScanners(st) == { s \in Scanners : st.scanner[s] = "none" }

\* startScanning up to its await of html5QrCode.start.  ctorOk: the constructor
\* returned an instance (else it threw err, caught by the same try).
startScanning(st, ctorOk, err) ==
  LET st1 == setIsScanning(setPermissionError(setError(st, Null), FALSE), TRUE)
      id  == CHOOSE s \in FreeScanners(st) : \A t \in FreeScanners(st) : s <= t
  IN  IF ctorOk
        THEN [st1 EXCEPT !.scannerRef = id, !.scanner[id] = "starting",
                         !.calls = @ \o <<"start">>]
        ELSE startCatch(st1, err)

\* checkCameraPermissions without its stream.getTracks().forEach(track.stop).
acquireResumeTracksLeft(st, ctorOk, err) ==
  LET st0 == [st EXCEPT !.gumPending = @ - 1, !.liveProbes = @ + 1]
      st2 == setIsRequestingPermission(st0, FALSE)
  IN  startScanning(st2, ctorOk, err)

\* checkCameraPermissions from the resolution of getUserMedia to its return of
\* true, and on through checkPermissionsAndStart into startScanning.
acquireResume(st, ctorOk, err) ==
  LET st0 == [st EXCEPT !.gumPending = @ - 1, !.liveProbes = @ + 1]
      st1 == [st0 EXCEPT !.liveProbes = @ - 1, !.calls = @ \o <<"track.stop">>]
      st2 == setIsRequestingPermission(st1, FALSE)
  IN  startScanning(st2, ctorOk, err)

\* The success callback without its call of onClose.
onDecodedNoClose(st) ==
  [stopScanning(st) EXCEPT !.successCalls = @ + 1,
                           !.notified = @ \o <<"onScanSuccess">>]

\* The success callback handed to html5QrCode.start.
onDecoded(st) ==
  [stopScanning(st) EXCEPT !.successCalls = @ + 1,
                           !.notified = @ \o <<"onScanSuccess", "onClose">>,
                           !.calls = @ \o <<"onScanSuccess", "onClose">>]

\* The error callback without "QR code parse error" among the texts it ignores.
onFrameErrorParseUnfiltered(st, errorMessage) ==
  IF /\ ~Includes(errorMessage, <<"NotFoundException">>)
     /\ ~Includes(errorMessage, <<"No", "QR", "code", "found">>)
     /\ ~Includes(errorMessage, <<"No", "MultiFormat", "Readers">>)
     /\ \/ Includes(errorMessage, <<"Permission">>)
        \/ Includes(errorMessage, <<"camera">>)
        \/ Includes(errorMessage, <<"NotAllowedError">>)
        \/ Includes(errorMessage, <<"PermissionDeniedError">>)
    THEN setIsScanning(setError(setPermissionError(st, TRUE), MsgFramePermission), FALSE)
    ELSE st

\* The error callback handed to html5QrCode.start.
onFrameError(st, errorMessage) ==
  IF /\ ~Includes(errorMessage, <<"NotFoundException">>)
     /\ ~Includes(errorMessage, <<"No", "QR", "code", "found">>)
     /\ ~Includes(errorMessage, <<"QR", "code", "parse", "error">>)
     /\ ~Includes(errorMessage, <<"No", "MultiFormat", "Readers">>)
     /\ \/ Includes(errorMessage, <<"Permission">>)
        \/ Includes(errorMessage, <<"camera">>)
        \/ Includes(errorMessage, <<"NotAllowedError">>)
        \/ Includes(errorMessage, <<"PermissionDeniedError">>)
    THEN setIsScanning(setError(setPermissionError(st, TRUE), MsgFramePermission), FALSE)
    ELSE st

\* handleRetry without its setError(null) and setPermissionError(false).
handleRetryNoClear(st) ==
  checkPermissionsAndStart(st)

\* handleRetry up to its first await.
handleRetry(st) ==
  checkPermissionsAndStart(setPermissionError(setError(st, Null), FALSE))

\* The body of the effect keyed on `open`.
effect(st, o) ==
  IF o
    THEN checkPermissionsAndStart(setPermissionError(setError(st, Null), FALSE))
    ELSE stopScanning(st)

\* The effect's cleanup.
cleanup(st) == stopScanning(st)

\* ------------------------------------------------------------- actions
Apply(st) ==
  /\ lifecycle' = st.lifecycle
  /\ isScanning' = st.isScanning
  /\ error' = st.error
  /\ permissionError' = st.permissionError
  /\ isRequestingPermission' = st.isRequestingPermission
  /\ scannerRef' = st.scannerRef
  /\ scanner' = st.scanner
  /\ stopping' = st.stopping
  /\ queryPending' = st.queryPending
  /\ gumPending' = st.gumPending
  /\ liveProbes' = st.liveProbes
  /\ successCalls' = st.successCalls
  /\ notified' = st.notified
  /\ uncaught' = st.uncaught
  /\ calls' = st.calls

\* An instance that nothing refers to any more (not in scannerRef, no stop()
\* awaited, no camera held) is garbage: its id is free again.
Collect(st) ==
  [st EXCEPT !.scanner =
     [s \in Scanners |->
        IF st.scanner[s] = "notStarted" /\ st.scannerRef # s /\ st.stopping[s] = 0
          THEN "none" ELSE st.scanner[s]]]

Commit(st) ==
  /\ InBounds(st)
  /\ Apply(Collect(st))
  /\ UNCHANGED <<hasMediaDevices, hasPermissionsApi>>
  /\ UNCHANGED otherVars

\* AdminRoute before its first render.  token: localStorage holds an auth_token;
\* pending: getProfile calls in flight; route: where the router is; calls: what
\* the last step called, in order; verified: some getProfile has resolved with
\* an admin user.
AdminRouteNew ==
  [ lifecycle |-> "new", checking |-> TRUE, token |-> FALSE, pending |-> 0,
    route |-> "/admin", calls |-> <<>>, verified |-> FALSE ]

\* The change-password form before its first render.  request: the body of the
\* fetch in flight; calls: what the last step called, in order.
NoRequest == [pending |-> FALSE, currentPassword |-> "", newPassword |-> ""]

ProfilePageNew ==
  [ lifecycle |-> "new", changing |-> FALSE,
    passwordData |-> [currentPassword |-> "", newPassword |-> "", confirmPassword |-> ""],
    request |-> NoRequest, calls |-> <<>> ]

\* LanguageSwitcher before its first render, in a document without dir and lang.
\* language: i18n.language; loading: the language i18n is changing to; last: the
\* code of the last changeLanguage call.
LanguageSwitcherNew ==
  [ isOpen |-> FALSE, dir |-> "", lang |-> "", bodyRtl |-> FALSE,
    language |-> "en", loading |-> "none", last |-> "none" ]

OthersNew ==
  /\ adminRoute = AdminRouteNew
  /\ profilePage = ProfilePageNew
  /\ languageSwitcher = LanguageSwitcherNew

Step(st) == Commit(st) /\ UNCHANGED input

Init ==
  /\ lifecycle = "new"
  /\ open = FALSE
  /\ hasMediaDevices \in BOOLEAN
  /\ hasPermissionsApi \in BOOLEAN
  /\ isScanning = FALSE
  /\ error = Null
  /\ permissionError = FALSE
  /\ isRequestingPermission = FALSE
  /\ scannerRef = 0
  /\ scanner = [s \in Scanners |-> "none"]
  /\ stopping = [s \in Scanners |-> 0]
  /\ queryPending = 0
  /\ gumPending = 0
  /\ liveProbes = 0
  /\ successCalls = 0
  /\ notified = <<>>
  /\ uncaught = FALSE
  /\ calls = <<>>
  /\ input = NoInput
  /\ OthersNew

\* The first render with open = o, and the first run of the effect.
Mount(o) ==
  /\ lifecycle = "new"
  /\ open' = o
  /\ Step(effect([Here EXCEPT !.lifecycle = "mounted"], o))

\* The parent changes the `open` prop: the previous effect's cleanup runs, then
\* the effect.  The notification counters are per opened session.
SetOpen(o) ==
  /\ lifecycle = "mounted"
  /\ o # open
  /\ open' = o
  /\ LET st == cleanup(Here)
     IN  Step(effect(IF o THEN [st EXCEPT !.successCalls = 0] ELSE st, o))

\* The component unmounts: the effect's cleanup runs, and React discards the
\* instance's props and state cells (they read as their initial values from here
\* on); the ref object and the pending promises live on.
Unmount ==
  /\ lifecycle = "mounted"
  /\ open' = FALSE
  /\ Step([cleanup(Here) EXCEPT !.lifecycle = "unmounted", !.isScanning = FALSE,
                                !.error = Null, !.permissionError = FALSE,
                                !.isRequestingPermission = FALSE])

\* The "Start Camera" button, rendered when !error && !isScanning &&
\* !isRequestingPermission.
ClickStartCamera ==
  /\ lifecycle = "mounted" /\ open
  /\ error = Null /\ ~isScanning /\ ~isRequestingPermission
  /\ UNCHANGED open
  /\ Step(checkPermissionsAndStart(Here))

\* Whether the "Retry" button is rendered and enabled.
RetryEnabled ==
  /\ lifecycle = "mounted" /\ open
  /\ error # Null /\ ~isRequestingPermission

ClickRetry ==
  /\ RetryEnabled
  /\ UNCHANGED open
  /\ Step(handleRetry(Here))

\* The "Cancel" button, or the dialog asking to close: onClose().
ClickCancel ==
  /\ lifecycle = "mounted" /\ open
  /\ UNCHANGED open
  /\ Step([Here EXCEPT !.notified = @ \o <<"onClose">>, !.calls = @ \o <<"onClose">>])

\* navigator.permissions.query settles.
QuerySettles(state) ==
  /\ queryPending > 0
  /\ UNCHANGED open
  /\ Step(queryResume(Here, state))

\* getUserMedia resolves with a stream.
AcquireResolves(ctorOk, err) ==
  /\ gumPending > 0
  /\ ctorOk => (FreeScanners(Here) # {} /\ err = NonError)
  /\ UNCHANGED open
  /\ Step(acquireResume(Here, ctorOk, err))

\* getUserMedia rejects.
AcquireRejects(err) ==
  /\ gumPending > 0
  /\ UNCHANGED open
  /\ Step(acquisitionCatch([Here EXCEPT !.gumPending = @ - 1], err))

\* html5QrCode.start resolves: the instance holds the camera and decodes.
StartResolves(s) ==
  /\ scanner[s] = "starting"
  /\ UNCHANGED open
  /\ Step([Here EXCEPT !.scanner[s] = "running"])

\* html5QrCode.start rejects.
StartRejects(s, err) ==
  /\ scanner[s] = "starting"
  /\ UNCHANGED open
  /\ Step(startCatch([Here EXCEPT !.scanner[s] = "notStarted"], err))

\* A running instance decodes a code.
Decoded(s) ==
  /\ scanner[s] = "running"
  /\ UNCHANGED open
  /\ Step(onDecoded(Here))

\* A running instance reports a frame without a code, or a failure.
FrameError(s, errorMessage) ==
  /\ scanner[s] = "running"
  /\ UNCHANGED open
  /\ Step(onFrameError(Here, errorMessage))

\* stop() of instance s settles for one waiting stopScanning.
StopSettles(s, resolved, clearOk) ==
  /\ stopping[s] > 0
  /\ scanner[s] = "running" => resolved
  /\ ~clearOk => /\ resolved
                 /\ scannerRef \notin {0, s}
                 /\ scanner[scannerRef] \in {"starting", "running"}
  /\ UNCHANGED open
  /\ Step(stopScanningResume(Here, s, resolved, clearOk))

Next ==
  \/ \E o \in BOOLEAN : Mount(o)
  \/ \E o \in BOOLEAN : SetOpen(o)
  \/ Unmount
  \/ ClickStartCamera
  \/ ClickRetry
  \/ ClickCancel
  \/ \E state \in {"granted", "prompt", "denied", "throws"} : QuerySettles(state)
  \/ \E err \in StartErrors : AcquireResolves(FALSE, err)
  \/ AcquireResolves(TRUE, NonError)
  \/ \E err \in AcquireErrors : AcquireRejects(err)
  \/ \E s \in Scanners : StartResolves(s)
  \/ \E s \in Scanners, err \in StartErrors : StartRejects(s, err)
  \/ \E s \in Scanners : Decoded(s)
  \/ \E s \in Scanners, m \in FrameErrors : FrameError(s, m)
  \/ \E s \in Scanners, resolved \in BOOLEAN, clearOk \in BOOLEAN :
        StopSettles(s, resolved, clearOk)

Spec == Init /\ [][Next]_vars

\* The browser settles every promise it has handed out: a pending permission
\* query and a pending getUserMedia each resolve or reject in the end.  Among
\* the steps of Next, those that lower queryPending are the QuerySettles steps
\* and those that lower gumPending are the AcquireResolves and AcquireRejects
\* steps, and one of each is possible whenever the counter is positive.
QuerySettled == queryPending > 0 /\ queryPending' = queryPending - 1

AcquireSettled == gumPending > 0 /\ gumPending' = gumPending - 1

FairSpec == Spec /\ WF_queryPending(QuerySettled) /\ WF_gumPending(AcquireSettled)

\* ------------------------------------------- the classifiers on their own
\* Every name a thrown DOMException or Error may carry that one of the catch
\* blocks tests for, and two it does not.
ErrorNames ==
  { "NotAllowedError", "PermissionDeniedError", "NotFoundError",
    "DevicesNotFoundError", "NotReadableError", "TrackStartError",
    "OverconstrainedError", "Error" }

\* Messages with and without the words the catch blocks search for.
ErrorMessages ==
  { <<>>,
    <<"Permission", "denied">>,
    <<"no", "permission", "for", "device">>,
    <<"Could", "not", "start", "video", "source">>,
    <<"Camera", "streaming", "not", "supported">>,
    <<"camera", "failure">> }

ThrownValues == { Err(n, m) : n \in ErrorNames, m \in ErrorMessages } \cup { NonError }

\* Texts for the frame-level error callback: one for each pattern it filters,
\* one for each keyword it searches, and texts with both or neither.
FrameTexts ==
  { <<"NotFoundException", "No", "MultiFormat", "Readers", "were", "able", "to",
      "detect", "the", "code">>,
    <<"No", "QR", "code", "found">>,
    <<"QR", "code", "parse", "error", "undefined">>,
    <<"No", "MultiFormat", "Readers", "were", "able", "to", "detect", "the", "code">>,
    <<"QR", "code", "parse", "error", "NotAllowedError", "Permission", "denied">>,
    <<"NotAllowedError", "The", "request", "is", "not", "allowed">>,
    <<"PermissionDeniedError">>,
    <<"Permission", "dismissed">>,
    <<"camera", "disconnected">>,
    <<"NotFoundError", "Requested", "device", "not", "found">>,
    <<"NotReadableError", "Could", "not", "start", "video", "source">>,
    <<"TrackStartError">>,
    <<"decoder", "crashed">> }

\* One failure, and the component at the point where the failure reaches it:
\* awaiting getUserMedia (alone, or beside a permission query that has just
\* reported "denied"), awaiting html5QrCode.start, or scanning.
InitClassify ==
  /\ OthersNew
  /\ lifecycle = "mounted" /\ open = TRUE
  /\ hasMediaDevices = TRUE /\ hasPermissionsApi \in BOOLEAN
  /\ stopping = [s \in Scanners |-> 0]
  /\ queryPending = 0 /\ liveProbes = 0 /\ successCalls = 0
  /\ notified = <<>> /\ calls = <<>> /\ uncaught = FALSE
  /\ \/ /\ \E e \in ThrownValues :
              input = [channel |-> "probe", err |-> e, text |-> <<>>, handled |-> FALSE]
        /\ gumPending = 1 /\ isRequestingPermission = TRUE /\ isScanning = FALSE
        /\ scannerRef = 0 /\ scanner = [s \in Scanners |-> "none"]
        /\ \/ permissionError = FALSE /\ error = Null
           \/ hasPermissionsApi /\ permissionError = TRUE /\ error = MsgQueryDenied
     \/ /\ \E e \in ThrownValues :
              input = [channel |-> "start", err |-> e, text |-> <<>>, handled |-> FALSE]
        /\ gumPending = 0 /\ isRequestingPermission = FALSE /\ isScanning = TRUE
        /\ scannerRef = 1 /\ scanner = [s \in Scanners |-> IF s = 1 THEN "starting" ELSE "none"]
        /\ permissionError = FALSE /\ error = Null
     \/ /\ \E m \in FrameTexts :
              input = [channel |-> "frame", err |-> NonError, text |-> m, handled |-> FALSE]
        /\ gumPending = 0 /\ isRequestingPermission = FALSE /\ isScanning = TRUE
        /\ scannerRef = 1 /\ scanner = [s \in Scanners |-> IF s = 1 THEN "running" ELSE "none"]
        /\ permissionError = FALSE /\ error = Null

\* getUserMedia rejects with the failure.
ProbeRejects ==
  /\ input.channel = "probe" /\ ~input.handled
  /\ gumPending > 0
  /\ UNCHANGED open
  /\ Commit(acquisitionCatch([Here EXCEPT !.gumPending = @ - 1], input.err))
  /\ input' = [input EXCEPT !.handled = TRUE]

\* html5QrCode.start rejects with the failure.
StartFails ==
  /\ input.channel = "start" /\ ~input.handled
  /\ scanner[scannerRef] = "starting"
  /\ UNCHANGED open
  /\ Commit(startCatch([Here EXCEPT !.scanner[scannerRef] = "notStarted"], input.err))
  /\ input' = [input EXCEPT !.handled = TRUE]

\* The running instance hands the text to the frame-level error callback.
FrameReports ==
  /\ input.channel = "frame" /\ ~input.handled
  /\ scanner[scannerRef] = "running"
  /\ UNCHANGED open
  /\ Commit(onFrameError(Here, input.text))
  /\ input' = [input EXCEPT !.handled = TRUE]

NextClassify == ProbeRejects \/ StartFails \/ FrameReports

ClassifySpec == InitClassify /\ [][NextClassify]_vars

\* ------------------------------------------------------------ the phases
Mounted == lifecycle = "mounted"

\* The dialog is closed or the component is gone: the scan session has ended.
Exited == lifecycle = "unmounted" \/ (Mounted /\ ~open)

\* No asynchronous step of the component is pending.
Quiescent ==
  /\ queryPending = 0
  /\ gumPending = 0
  /\ \A s \in Scanners : scanner[s] # "starting" /\ stopping[s] = 0

\* Instances that hold, or are about to hold, the camera.
Active == { s \in Scanners : scanner[s] \in {"starting", "running"} }

Idle == ~isScanning /\ ~isRequestingPermission /\ error = Null

Notified(f) == \E i \in 1..Len(notified) : notified[i] = f

\* ------------------------------------------------------------ the claims

\* C1: once a scan session has ended (dialog closed or component unmounted) and
\* every pending asynchronous step has completed, no Html5Qrcode instance is
\* still running and no probe stream is still live.
C1_NoStreamOutlivesSession ==
  (Exited /\ Quiescent) =>
     /\ \A s \in Scanners : scanner[s] # "running"
     /\ liveProbes = 0

\* C2: an acquisition that resolves after close() (dialog closed or component
\* unmounted) starts no decode loop: no step taken while the session is closed
\* creates and starts an Html5Qrcode instance.
C2_LateAcquisitionStartsNothing ==
  [][Exited => \A s \in Scanners : scanner'[s] = "starting" => scanner[s] = "starting"]_vars

\* C3: at the moment onScanSuccess is delivered to the caller, the decode loop
\* has been stopped and the camera released: no instance is running.
C3_StoppedBeforeNotify ==
  Notified("onScanSuccess") => \A s \in Scanners : scanner[s] # "running"

\* C4: onScanSuccess is invoked at most once per opened session.
C4_SuccessAtMostOnce == successCalls <= 1

\* C5: every step that invokes onScanSuccess invokes onClose right after it, in
\* the same callback, and the caller sees nothing else in between.
C5_SuccessPairedWithClose ==
  Notified("onScanSuccess") => notified = <<"onScanSuccess", "onClose">>

C5_Witness == notified = <<"onScanSuccess", "onClose">> /\ Mounted /\ open

\* C6: at most one session is in progress: at most one permission query or
\* stream acquisition is in flight, and at most one Html5Qrcode instance is
\* started and unreleased.
C6_SingleSession ==
  /\ queryPending + gumPending <= 1
  /\ Cardinality(Active) <= 1

\* C7: once the dialog is closed and stopScanning has finished, the session is
\* Idle: not scanning, not requesting permission, no error, no permission error.
C7_CloseLeavesIdle ==
  (Mounted /\ ~open /\ \A s \in Scanners : stopping[s] = 0) =>
     (~isScanning /\ ~isRequestingPermission /\ error = Null /\ ~permissionError)

\* C8: stopScanning never ends with an uncaught error, and every call of it that
\* finishes (at once with no instance in scannerRef, or after stop() settled,
\* resolved or rejected, with clear() returning or throwing) leaves isScanning
\* false, however many calls are pending on the same instance.
C8_StopScanningNeverThrows ==
  /\ [](~uncaught)
  /\ [][ ( \/ \E s \in Scanners : stopping'[s] < stopping[s]
           \/ scannerRef = 0 /\ (open' # open \/ Notified("onScanSuccess")') )
         => (lifecycle' = "mounted" => ~isScanning') ]_vars

\* A stopScanning call has finished through its catch block: the instance in
\* scannerRef is running with no stop() awaited, nothing else is pending, and
\* isScanning is false with no error recorded.
C8_Witness ==
  /\ Mounted /\ ~isScanning /\ error = Null
  /\ queryPending = 0 /\ gumPending = 0
  /\ scannerRef # 0 /\ scanner[scannerRef] = "running" /\ stopping[scannerRef] = 0

\* C9: while the session is Idle or Scanning a retry request is ignored: the
\* Retry button cannot be used.
C9_RetryOnlyFromError ==
  (Mounted /\ (isScanning \/ Idle)) => ~RetryEnabled

NonBenign(m) ==
  /\ ~Includes(m, <<"NotFoundException">>)
  /\ ~Includes(m, <<"No", "QR", "code", "found">>)
  /\ ~Includes(m, <<"QR", "code", "parse", "error">>)
  /\ ~Includes(m, <<"No", "MultiFormat", "Readers">>)

PermissionText(m) ==
  \/ Includes(m, <<"Permission">>)
  \/ Includes(m, <<"camera">>)
  \/ Includes(m, <<"NotAllowedError">>)
  \/ Includes(m, <<"PermissionDeniedError">>)

\* The steps in which something fails (each starts with what the step must
\* change in any case, so that the test of a step is cheap).
QueryThrew == queryPending' = queryPending - 1 /\ QuerySettles("throws")

AcquireRejected ==
  gumPending' = gumPending - 1 /\ \E err \in AcquireErrors : AcquireRejects(err)

StartFailed ==
  \/ gumPending' = gumPending - 1 /\ \E err \in StartErrors : AcquireResolves(FALSE, err)
  \/ \E s \in Scanners :
        /\ scanner[s] = "starting" /\ scanner'[s] # "starting"
        /\ \E err \in StartErrors : StartRejects(s, err)

FrameReported(m) ==
  /\ stopping' = stopping /\ gumPending' = gumPending /\ queryPending' = queryPending
  /\ scanner' = scanner /\ scannerRef' = scannerRef /\ notified' = <<>>
  /\ \E s \in Scanners : FrameError(s, m)

C11_DeniedQueryAcquiresNothing ==
  [][ (queryPending' = queryPending - 1 /\ QuerySettles("denied")) =>
        /\ gumPending' = gumPending
        /\ scannerRef' = scannerRef
        /\ \A s \in Scanners : scanner'[s] = "starting" => scanner[s] = "starting"
        /\ calls' = <<>>
        /\ Mounted => (permissionError' /\ error' = MsgQueryDenied) ]_vars

\* The query said "denied" and nothing else was ever asked of the camera.
C11_Witness ==
  /\ Mounted /\ open /\ hasPermissionsApi
  /\ permissionError /\ error = MsgQueryDenied
  /\ queryPending = 0 /\ gumPending = 0 /\ liveProbes = 0
  /\ ~isScanning /\ \A s \in Scanners : scanner[s] = "none"

\* ------------------------------------------------------------------ C12
Called(f) == \E i \in 1..Len(calls) : calls[i] = f

\* C12: a step that receives the probe stream stops its tracks exactly once and
\* first of all; if it goes on to start the decode loop, start() comes after the
\* tracks' stop, and the session is Scanning (isScanning, no error, no longer
\* requesting) with the new instance in scannerRef.
C12_ProbeTracksStoppedBeforeStart ==
  (Called("track.stop") \/ Called("start")) =>
    /\ calls[1] = "track.stop"
    /\ Cardinality({ i \in 1..Len(calls) : calls[i] = "track.stop" }) = 1
    /\ liveProbes = 0
    /\ Called("start") =>
          /\ calls = <<"track.stop", "start">>
          /\ scannerRef # 0 /\ scanner[scannerRef] = "starting"
          /\ Mounted => (isScanning /\ error = Null /\ ~isRequestingPermission)

\* With no permission query in the browser, the probe resolved and the decode
\* loop was started after the probe's tracks were stopped.
C12_Witness ==
  /\ Mounted /\ open /\ ~hasPermissionsApi
  /\ calls = <<"track.stop", "start">>
  /\ isScanning /\ liveProbes = 0 /\ gumPending = 0

\* ------------------------------------------------------------------ C13
\* C13: when a scanning session's frame-level error callback receives a text
\* that indicates permission loss, the session becomes PermissionDenied and no
\* instance is left running without a stop() requested of it.
C13_PermissionLossStopsLoop ==
  [][ \A m \in FrameErrors :
        (Mounted /\ isScanning /\ NonBenign(m) /\ PermissionText(m) /\ FrameReported(m))
        => /\ permissionError' /\ error' # Null
           /\ \A s \in Scanners : scanner'[s] = "running" => stopping'[s] > 0 ]_vars

\* ------------------------------------------------------------------ C14
\* C14: isScanning, isRequestingPermission and a recorded error are pairwise
\* mutually exclusive in every state of the mounted component.
C14_OnePhaseAtATime ==
  Mounted =>
    /\ ~(isScanning /\ isRequestingPermission)
    /\ ~(isScanning /\ error # Null)
    /\ ~(isRequestingPermission /\ error # Null)

\* ------------------------------------------------------------------ C15
\* C15: in the order of calls of a step that invokes onScanSuccess, a stop() and
\* a clear() of the scanner both come before onScanSuccess.
C15_StopAndClearBeforeNotify ==
  \A i \in 1..Len(calls) :
     calls[i] = "onScanSuccess" =>
        /\ \E j \in 1..(i - 1) : calls[j] = "stop"
        /\ \E j \in 1..(i - 1) : calls[j] = "clear"

\* ---------------------------------------------- the failure taxonomy
DeniedNames   == { "NotAllowedError", "PermissionDeniedError" }
NotFoundNames == { "NotFoundError", "DevicesNotFoundError" }
BusyNames     == { "NotReadableError", "TrackStartError" }

KindOfName(n) ==
  IF n \in DeniedNames THEN "denied"
  ELSE IF n \in NotFoundNames THEN "notFound"
  ELSE IF n \in BusyNames THEN "busy"
  ELSE "other"

\* The kind of the failure under classification: by the name of a thrown Error,
\* by the error name a frame-level text carries.
Kind ==
  IF input.channel = "frame"
    THEN IF \E n \in DeniedNames : Includes(input.text, <<n>>) THEN "denied"
         ELSE IF \E n \in NotFoundNames : Includes(input.text, <<n>>) THEN "notFound"
         ELSE IF \E n \in BusyNames : Includes(input.text, <<n>>) THEN "busy"
         ELSE "other"
    ELSE IF input.err.isError THEN KindOfName(input.err.name) ELSE "other"

\* The phase the dialog shows.
Phase ==
  IF error # Null THEN (IF permissionError THEN "PermissionDenied" ELSE "Error")
  ELSE IF isRequestingPermission THEN "RequestingPermission"
  ELSE IF isScanning THEN "Scanning"
  ELSE "Idle"

\* The step in which the failure reaches the component through channel ch.
Handled(ch) == input.channel = ch /\ ~input.handled /\ input'.handled

\* ------------------------------------------------------------------ C16
\* C16: the catch of the probe acquisition classifies by err.name: a permission
\* denial sets permissionError with its message; a missing device, a busy device
\* and anything else record an error (the 'No camera found' text, the 'in use'
\* text, the Error's own message or a fallback) and do not set permissionError;
\* the four fixed messages are pairwise distinct.
C16_ProbeFailuresClassifiedByName ==
  [][ Handled("probe") =>
        LET e == input.err
            k == IF e.isError THEN KindOfName(e.name) ELSE "other"
        IN  /\ ~isRequestingPermission'
            /\ k = "denied" => (permissionError' /\ error' = MsgProbeDenied)
            /\ k # "denied" => permissionError' = permissionError
            /\ k = "notFound" =>
                  (error' = MsgNotFound /\ Includes(error', <<"No", "camera", "found.">>))
            /\ k = "busy" => (error' = MsgInUse /\ Includes(error', <<"in", "use">>))
            /\ k = "other" =>
                  error' = IF ~e.isError THEN MsgProbeNonError
                           ELSE IF e.message # <<>> THEN e.message
                           ELSE MsgProbeFallback
            /\ Cardinality({MsgProbeDenied, MsgNotFound, MsgInUse, MsgProbeFallback}) = 4
    ]_vars

\* A rejection under the legacy name of a busy device was classified.
C16_Witness ==
  /\ input.channel = "probe" /\ input.handled /\ input.err.name = "TrackStartError"
  /\ error = MsgInUse /\ ~permissionError /\ ~isRequestingPermission

\* ------------------------------------------------------------------ C17
\* C17: while scanning, every frame-level error text that contains
\* "NotAllowedError" leaves permissionError true, an error set and isScanning
\* false.
C17_NotAllowedTextDenies ==
  [][ (Handled("frame") /\ isScanning /\ Includes(input.text, <<"NotAllowedError">>))
      => (permissionError' /\ error' # Null /\ ~isScanning') ]_vars

\* ------------------------------------------------------------------ C18
\* C18: a frame-level error whose text holds one of the benign messages leaves
\* isScanning, error, permissionError and isRequestingPermission as they were,
\* and the instance running with no stop() asked of it.
C18_BenignFrameErrorChangesNothing ==
  [][ (Handled("frame") /\ ~NonBenign(input.text)) =>
        /\ UNCHANGED <<isScanning, error, permissionError, isRequestingPermission>>
        /\ UNCHANGED <<scannerRef, scanner, stopping>>
        /\ calls' = <<>> ]_vars

\* The "No MultiFormat Readers" text was reported and the session still scans.
C18_Witness ==
  /\ input.channel = "frame" /\ input.handled
  /\ input.text = <<"No", "MultiFormat", "Readers", "were", "able", "to", "detect",
                    "the", "code">>
  /\ isScanning /\ error = Null /\ ~permissionError
  /\ scannerRef # 0 /\ scanner[scannerRef] = "running"

\* ------------------------------------------------------------------ C19
\* C19: whichever channel reports a failure (probe rejection, fatal start
\* error, frame-level text that is not benign), the phase it leaves is
\* PermissionDenied for a permission denial and Error for a missing device, a
\* busy device and anything else.
C19_SamePhaseOnEveryChannel ==
  [][ \A ch \in {"probe", "start", "frame"} :
        ( /\ Handled(ch)
          /\ ~permissionError
          /\ ch = "frame" => NonBenign(input.text) )
        => Phase' = IF Kind = "denied" THEN "PermissionDenied" ELSE "Error" ]_vars

C21_UnsupportedPlatformIsError ==
  (~hasMediaDevices /\ Mounted /\ open) =>
    /\ Phase = "Error" /\ error = MsgUnsupported /\ ~permissionError
    /\ queryPending = 0 /\ gumPending = 0
    /\ \A s \in Scanners : scanner[s] = "none"
    /\ RetryEnabled
    /\ LET r == handleRetry(Here)
       IN  /\ r.error = error /\ r.permissionError = permissionError
           /\ r.isScanning = isScanning
           /\ r.isRequestingPermission = isRequestingPermission
           /\ r.queryPending = 0 /\ r.gumPending = 0

\* The dialog is open in a browser without getUserMedia.
C21_Witness ==
  /\ ~hasMediaDevices /\ hasPermissionsApi /\ Mounted /\ open
  /\ error = MsgUnsupported /\ ~isScanning

\* ------------------------------------------------------------------ C22
\* C22: wherever Retry can be clicked, handleRetry does what the effect does
\* when the dialog opens, and whenever it issues a permission query or an
\* acquisition it has cleared error and permissionError first.
C22_RetryRunsTheOpenSequence ==
  RetryEnabled =>
    LET r == handleRetry(Here)
    IN  /\ r = effect(Here, TRUE)
        /\ (r.queryPending + r.gumPending > queryPending + gumPending) =>
              (r.error = Null /\ ~r.permissionError)

\* From PermissionDenied, Retry clears the error and the flag and issues a new
\* permission query.
C22_Witness ==
  /\ RetryEnabled /\ permissionError /\ error = MsgProbeDenied
  /\ handleRetry(Here).queryPending = queryPending + 1
  /\ handleRetry(Here).error = Null /\ ~handleRetry(Here).permissionError

\* ------------------------------------------------------------------ C23
\* C23: no step takes the mounted dialog from the Scanning phase to the generic
\* Error phase.
C23_NeverFromScanningToError ==
  [][ (Mounted /\ Phase = "Scanning") => Phase' # "Error" ]_vars

\* ------------------------------------------------------------------ C25
PermissionMessages ==
  { MsgQueryDenied, MsgProbeDenied, MsgStartPermission, MsgFramePermission }

\* C25: whenever permissionError is true, the recorded error is one of the
\* permission messages.
C25_PermissionFlagMatchesError ==
  (Mounted /\ permissionError) => error \in PermissionMessages

\* ------------------------------------------------------------------ C24
\* C24: if every pending permission query and getUserMedia call settles, then
\* isRequestingPermission, whenever it is true, is false again later: the
\* dialog leaves the RequestingPermission phase.
C24_RequestingPermissionEnds ==
  isRequestingPermission ~> (~isRequestingPermission /\ Phase # "RequestingPermission")

\* Both paths were taken: an acquisition was rejected and recorded while the
\* flag is false again and nothing is pending.
C24_Witness ==
  /\ Mounted /\ open /\ ~isRequestingPermission
  /\ queryPending = 0 /\ gumPending = 0
  /\ error = MsgInUse

\* ============================================================ AdminRoute
\* The QRCodeScanner not rendered, in a browser that has both camera APIs.
ScannerNew ==
  /\ lifecycle = "new" /\ open = FALSE
  /\ hasMediaDevices = TRUE /\ hasPermissionsApi = TRUE
  /\ isScanning = FALSE /\ error = Null /\ permissionError = FALSE
  /\ isRequestingPermission = FALSE
  /\ scannerRef = 0
  /\ scanner = [s \in Scanners |-> "none"]
  /\ stopping = [s \in Scanners |-> 0]
  /\ queryPending = 0 /\ gumPending = 0 /\ liveProbes = 0 /\ successCalls = 0
  /\ notified = <<>> /\ uncaught = FALSE /\ calls = <<>> /\ input = NoInput

\* The component at the start of a step: the log of calls is per step.
AdminHere == [adminRoute EXCEPT !.calls = <<>>]

setChecking(a, v) ==
  IF a.lifecycle = "mounted" THEN [a EXCEPT !.checking = v] ELSE a

navigate(a, to) == [a EXCEPT !.route = to, !.calls = @ \o <<"navigate", to>>]

\* toast.error(...)
toastError(a) == [a EXCEPT !.calls = @ \o <<"toast">>]

\* verifyAdmin up to its await of apiClient.getProfile().
verifyAdmin(a) ==
  IF ~a.token
    THEN navigate(toastError(a), "/login")
    ELSE [a EXCEPT !.pending = @ + 1, !.calls = @ \o <<"getProfile">>]

\* The catch block of verifyAdmin without its call of apiClient.clearToken().
verifyAdminCatchKeepsToken(a) ==
  navigate(toastError(a), "/login")

\* The catch block of verifyAdmin.  apiClient.clearToken() removes the token.
verifyAdminCatch(a) ==
  navigate([toastError(a) EXCEPT !.token = FALSE, !.calls = @ \o <<"clearToken">>],
           "/login")

\* verifyAdmin without the test of user.isAdmin.
verifyAdminResumeNoAdminTest(a, user) ==
  LET a0 == [a EXCEPT !.pending = @ - 1]
  IN  IF user = "null" THEN verifyAdminCatch(a0)
      ELSE setChecking(a0, FALSE)

\* verifyAdmin from the resolution of getProfile.  user is "admin" (isAdmin
\* true), "user" (isAdmin false or absent) or "null" (no object: reading
\* user.isAdmin throws inside the try).
verifyAdminResume(a, user) ==
  LET a0 == [a EXCEPT !.pending = @ - 1]
  IN  IF user = "null" THEN verifyAdminCatch(a0)
      ELSE IF user # "admin" THEN navigate(toastError(a0), "/dashboard")
      ELSE setChecking(a0, FALSE)

AdminStep(a) ==
  /\ a.pending <= MaxProfileCalls
  /\ adminRoute' = a
  /\ UNCHANGED <<scannerVars, profilePage, languageSwitcher>>

\* The first render, and the first run of the effect.
AdminMounts ==
  /\ adminRoute.lifecycle = "new"
  /\ AdminStep(verifyAdmin([AdminHere EXCEPT !.lifecycle = "mounted"]))

\* useNavigate() returned a new function: the effect runs again.
AdminEffectReruns ==
  /\ adminRoute.lifecycle = "mounted"
  /\ AdminStep(verifyAdmin(AdminHere))

\* apiClient.getProfile() resolves.
ProfileResolves(user) ==
  /\ adminRoute.pending > 0
  /\ AdminStep([verifyAdminResume(AdminHere, user) EXCEPT
                  !.verified = @ \/ user = "admin"])

\* apiClient.getProfile() rejects.
ProfileRejects ==
  /\ adminRoute.pending > 0
  /\ AdminStep(verifyAdminCatch([AdminHere EXCEPT !.pending = @ - 1]))

\* The route changes away: React discards the state cell.
AdminUnmounts ==
  /\ adminRoute.lifecycle = "mounted"
  /\ AdminStep([AdminHere EXCEPT !.lifecycle = "unmounted", !.checking = TRUE])

\* Other code (login, logout) stores or removes the auth_token.
StorageChanges(t) ==
  /\ adminRoute.token # t
  /\ AdminStep([AdminHere EXCEPT !.token = t])

AdminInit ==
  /\ ScannerNew
  /\ profilePage = ProfilePageNew
  /\ languageSwitcher = LanguageSwitcherNew
  /\ \E t \in BOOLEAN : adminRoute = [AdminRouteNew EXCEPT !.token = t]

AdminNext ==
  \/ AdminMounts
  \/ AdminEffectReruns
  \/ \E user \in {"admin", "user", "null"} : ProfileResolves(user)
  \/ ProfileRejects
  \/ AdminUnmounts
  \/ \E t \in BOOLEAN : StorageChanges(t)

AdminSpec == AdminInit /\ [][AdminNext]_vars

\* ------------------------------------------------------------------ C26
\* C26: checking is false only after a getProfile call has resolved with an
\* admin user, and getProfile is called only when localStorage holds an
\* auth_token; the only step that makes checking false is such a resolution,
\* so a verification that finds no token, a non-admin user or a failed request
\* leaves checking as it was.
C26_ChildrenOnlyAfterVerification ==
  /\ [](/\ ~adminRoute.verified => adminRoute.checking
        /\ (\E i \in 1..Len(adminRoute.calls) : adminRoute.calls[i] = "getProfile")
              => adminRoute.token)
  /\ [][ (adminRoute.checking /\ ~adminRoute'.checking) => ProfileResolves("admin")
       ]_vars

\* The children are rendered: a token was there and the profile is an admin's.
C26_Witness ==
  /\ adminRoute.lifecycle = "mounted" /\ ~adminRoute.checking
  /\ adminRoute.verified /\ adminRoute.token /\ adminRoute.route = "/admin"

\* ------------------------------------------------------------------ C27
NavCount(c) == Cardinality({ i \in 1..Len(c) : c[i] = "navigate" })

NavTo(c, to) == \E i \in 1..(Len(c) - 1) : c[i] = "navigate" /\ c[i + 1] = to

Before(c, f, g) == \E i, j \in 1..Len(c) : i < j /\ c[i] = f /\ c[j] = g

\* C27: a verification that finds no token navigates once, to /login, and calls
\* neither getProfile nor clearToken; one whose getProfile resolves with a
\* non-admin user navigates once, to /dashboard, and leaves the token; one whose
\* getProfile rejects calls clearToken and then navigates once, to /login; one
\* that starts with a token, and one that succeeds, navigate nowhere.
C27_OneRedirectPerFailedVerification ==
  [][ LET c == adminRoute'.calls
      IN  /\ ((AdminMounts \/ AdminEffectReruns) /\ ~adminRoute.token) =>
                /\ NavCount(c) = 1 /\ NavTo(c, "/login")
                /\ \A i \in 1..Len(c) : c[i] \notin {"getProfile", "clearToken"}
                /\ adminRoute'.pending = adminRoute.pending
          /\ ((AdminMounts \/ AdminEffectReruns) /\ adminRoute.token) =>
                (NavCount(c) = 0 /\ adminRoute'.route = adminRoute.route)
          /\ ProfileResolves("user") =>
                /\ NavCount(c) = 1 /\ NavTo(c, "/dashboard")
                /\ \A i \in 1..Len(c) : c[i] # "clearToken"
                /\ adminRoute'.token = adminRoute.token
          /\ ProfileRejects =>
                /\ NavCount(c) = 1 /\ NavTo(c, "/login")
                /\ Before(c, "clearToken", "navigate")
                /\ ~adminRoute'.token
          /\ ProfileResolves("admin") =>
                /\ NavCount(c) = 0 /\ adminRoute'.route = adminRoute.route
                /\ adminRoute'.token = adminRoute.token ]_vars

\* A getProfile call was rejected: the token is cleared and the router is at
\* /login.
C27_Witness ==
  /\ adminRoute.calls = <<"toast", "clearToken", "navigate", "/login">>
  /\ ~adminRoute.token /\ adminRoute.route = "/login"

\* ====================================================================
\* Profile: the change-password form (src/pages/Profile.tsx)
\* ====================================================================
\* The texts the user types into a password field.
Passwords == {"", "a", "b"}

PasswordKeys == {"currentPassword", "newPassword", "confirmPassword"}

NoPasswords ==
  [currentPassword |-> "", newPassword |-> "", confirmPassword |-> ""]

\* The bodies a response carries: a JSON object, the JSON value null, or text
\* that res.json() cannot parse.
ResponseBodies == {"object", "null", "invalid"}

ProfileHere == [profilePage EXCEPT !.calls = <<>>]

\* State setters of an unmounted component leave nothing behind.
setChanging(p, v) ==
  IF p.lifecycle = "mounted" THEN [p EXCEPT !.changing = v] ELSE p

setPasswordData(p, d) ==
  IF p.lifecycle = "mounted" THEN [p EXCEPT !.passwordData = d] ELSE p

toast(p, title) == [p EXCEPT !.calls = @ \o <<title>>]

\* handleChangePassword without the comparison of the new and the confirmation
\* password.
handleChangePasswordNoMatchTest(p) ==
  LET d == p.passwordData
  IN  IF d.currentPassword = "" \/ d.newPassword = "" \/ d.confirmPassword = ""
        THEN toast(p, "Missing fields")
      ELSE [setChanging(p, TRUE) EXCEPT
              !.request = [pending |-> TRUE,
                           currentPassword |-> d.currentPassword,
                           newPassword |-> d.newPassword],
              !.calls = @ \o <<"fetch">>]

\* handleChangePassword up to its await of fetch.
handleChangePassword(p) ==
  LET d == p.passwordData
  IN  IF d.currentPassword = "" \/ d.newPassword = "" \/ d.confirmPassword = ""
        THEN toast(p, "Missing fields")
      ELSE IF d.newPassword # d.confirmPassword
        THEN toast(p, "Passwords do not match")
      ELSE [setChanging(p, TRUE) EXCEPT
              !.request = [pending |-> TRUE,
                           currentPassword |-> d.currentPassword,
                           newPassword |-> d.newPassword],
              !.calls = @ \o <<"fetch">>]

\* The finally block.
handleChangePasswordFinally(p) == setChanging(p, FALSE)

\* The catch block, then the finally block.
handleChangePasswordCatch(p) ==
  handleChangePasswordFinally(toast(p, "Network error"))

\* handleChangePassword from the resolution of fetch: res.json() throws on a
\* body it cannot parse, and data.message throws when data is null.
handleChangePasswordResume(p, ok, body) ==
  LET p0 == [p EXCEPT !.request.pending = FALSE]
  IN  IF body = "invalid" THEN handleChangePasswordCatch(p0)
      ELSE IF ok
        THEN handleChangePasswordFinally(
               setPasswordData(toast(p0, "Password changed successfully"),
                               NoPasswords))
      ELSE IF body = "null" THEN handleChangePasswordCatch(p0)
      ELSE handleChangePasswordFinally(toast(p0, "Failed to change password"))

ProfileStep(p) ==
  /\ profilePage' = p
  /\ UNCHANGED <<scannerVars, adminRoute, languageSwitcher>>

ProfileMounts ==
  /\ profilePage.lifecycle = "new"
  /\ ProfileStep([ProfileHere EXCEPT !.lifecycle = "mounted"])

\* onChange of one of the three password inputs.
TypesPassword(key, v) ==
  /\ profilePage.lifecycle = "mounted"
  /\ ProfileStep(setPasswordData(ProfileHere,
                                 [ProfileHere.passwordData EXCEPT ![key] = v]))

\* onClick of the button, which is disabled while changing is true.
ClicksChangePassword ==
  /\ profilePage.lifecycle = "mounted"
  /\ ~profilePage.changing
  /\ ProfileStep(handleChangePassword(ProfileHere))

\* fetch resolves with a response.
ResponseArrives(ok, body) ==
  /\ profilePage.request.pending
  /\ ProfileStep(handleChangePasswordResume(ProfileHere, ok, body))

\* fetch rejects.
FetchRejects ==
  /\ profilePage.request.pending
  /\ ProfileStep(handleChangePasswordCatch(
                   [ProfileHere EXCEPT !.request.pending = FALSE]))

\* The route changes away: React discards the state cells.
ProfileUnmounts ==
  /\ profilePage.lifecycle = "mounted"
  /\ ProfileStep([ProfileHere EXCEPT !.lifecycle = "unmounted",
                                     !.changing = FALSE,
                                     !.passwordData = NoPasswords])

PasswordInit ==
  /\ ScannerNew
  /\ adminRoute = AdminRouteNew
  /\ languageSwitcher = LanguageSwitcherNew
  /\ profilePage = ProfilePageNew

PasswordNext ==
  \/ ProfileMounts
  \/ \E key \in PasswordKeys, v \in Passwords : TypesPassword(key, v)
  \/ ClicksChangePassword
  \/ \E ok \in BOOLEAN, body \in ResponseBodies : ResponseArrives(ok, body)
  \/ FetchRejects
  \/ ProfileUnmounts

PasswordSpec == PasswordInit /\ [][PasswordNext]_vars

\* ------------------------------------------------------------------ C28
ValidPasswords(d) ==
  /\ d.currentPassword # "" /\ d.newPassword # "" /\ d.confirmPassword # ""
  /\ d.newPassword = d.confirmPassword

\* C28: a click sends the request, carrying the current and the new password,
\* exactly when the three fields are non-empty and the new password equals
\* its confirmation; a click that fails the validation sends nothing and
\* leaves passwordData, changing and the request as they were; when the
\* request settles (ok response, error response, network failure) changing is
\* false, and passwordData changes then only if the response was ok, to
\* three empty fields.
C28_ChangePasswordValidatesAndSettles ==
  [][ /\ ClicksChangePassword =>
            LET d == profilePage.passwordData
                sent == \E i \in 1..Len(profilePage'.calls) :
                           profilePage'.calls[i] = "fetch"
            IN  /\ sent <=> ValidPasswords(d)
                /\ sent => /\ profilePage'.request =
                                [pending |-> TRUE,
                                 currentPassword |-> d.currentPassword,
                                 newPassword |-> d.newPassword]
                           /\ profilePage'.changing
                /\ ~sent => /\ profilePage'.passwordData = d
                            /\ profilePage'.changing = profilePage.changing
                            /\ profilePage'.request = profilePage.request
      /\ (FetchRejects \/ \E ok \in BOOLEAN, body \in ResponseBodies :
                             ResponseArrives(ok, body)) =>
            /\ ~profilePage'.changing
            /\ ~profilePage'.request.pending
            /\ profilePage'.passwordData # profilePage.passwordData =>
                  /\ \E body \in ResponseBodies : ResponseArrives(TRUE, body)
                  /\ profilePage'.passwordData = NoPasswords ]_vars

\* An ok response to a sent request has emptied the fields of the mounted form.
C28_Witness ==
  /\ profilePage.lifecycle = "mounted"
  /\ profilePage.calls = <<"Password changed successfully">>
  /\ profilePage.request.newPassword # "" /\ ~profilePage.request.pending
  /\ profilePage.passwordData = NoPasswords /\ ~profilePage.changing

\* ====================================================================
\* LanguageSwitcher (src/components/LanguageSwitcher.tsx)
\* ====================================================================
\* The codes of the languages array.
LanguageCodes == {"en", "ar", "fr"}

\* classList.toggle(token, force): the class is there afterwards iff force.
classListToggle(has, force) == force

\* changeLanguage with classList.toggle('rtl') called without its force
\* argument.
changeLanguageFlipsClass(ls, languageCode) ==
  LET isRTL == languageCode = "ar"
  IN  [ls EXCEPT !.loading = languageCode,
                 !.isOpen = FALSE,
                 !.dir = IF isRTL THEN "rtl" ELSE "ltr",
                 !.lang = languageCode,
                 !.bodyRtl = ~@,
                 !.last = languageCode]

\* changeLanguage: i18n starts loading the language; the document is updated
\* at once.  last records the argument of the call.
changeLanguage(ls, languageCode) ==
  LET isRTL == languageCode = "ar"
  IN  [ls EXCEPT !.loading = languageCode,
                 !.isOpen = FALSE,
                 !.dir = IF isRTL THEN "rtl" ELSE "ltr",
                 !.lang = languageCode,
                 !.bodyRtl = classListToggle(@, isRTL),
                 !.last = languageCode]

LanguageStep(ls) ==
  /\ languageSwitcher' = ls
  /\ UNCHANGED <<scannerVars, adminRoute, profilePage>>

\* onOpenChange of the dropdown menu.
OpenChanges(o) ==
  /\ languageSwitcher.isOpen # o
  /\ LanguageStep([languageSwitcher EXCEPT !.isOpen = o])

\* onClick of an item of the open menu.
SelectsLanguage(languageCode) ==
  /\ languageSwitcher.isOpen
  /\ LanguageStep(changeLanguage(languageSwitcher, languageCode))

\* i18n finishes loading: i18n.language changes.
LanguageLoaded ==
  /\ languageSwitcher.loading # "none"
  /\ LanguageStep([languageSwitcher EXCEPT !.language = languageSwitcher.loading,
                                           !.loading = "none"])

\* The document is as the page that loads the component left it.
LanguageInit ==
  /\ ScannerNew
  /\ adminRoute = AdminRouteNew
  /\ profilePage = ProfilePageNew
  /\ \E d \in {"", "ltr", "rtl"}, l \in {""} \cup LanguageCodes, c \in BOOLEAN,
        g \in LanguageCodes :
        languageSwitcher = [LanguageSwitcherNew EXCEPT
                              !.dir = d, !.lang = l, !.bodyRtl = c, !.language = g]

LanguageNext ==
  \/ \E o \in BOOLEAN : OpenChanges(o)
  \/ \E languageCode \in LanguageCodes : SelectsLanguage(languageCode)
  \/ LanguageLoaded

LanguageSpec == LanguageInit /\ [][LanguageNext]_vars

\* ------------------------------------------------------------------ C29
\* C29: once changeLanguage has been called, whatever the calls before it,
\* documentElement.dir is "rtl" and the body has the class rtl iff the code of
\* the last call is "ar", and dir is "ltr" without the class otherwise;
\* documentElement.lang is that code; and each call leaves the dropdown closed.
C29_DocumentFollowsLastLanguage ==
  /\ [](languageSwitcher.last # "none" =>
          /\ languageSwitcher.dir =
               (IF languageSwitcher.last = "ar" THEN "rtl" ELSE "ltr")
          /\ languageSwitcher.bodyRtl <=> languageSwitcher.last = "ar"
          /\ languageSwitcher.lang = languageSwitcher.last)
  /\ [][ (\E languageCode \in LanguageCodes : SelectsLanguage(languageCode))
            => ~languageSwitcher'.isOpen ]_vars

\* French was chosen while Arabic was still loading: the document is
\* left-to-right, without the class, and the menu is closed.
C29_Witness ==
  /\ languageSwitcher.last = "fr" /\ languageSwitcher.language = "ar"
  /\ languageSwitcher.dir = "ltr" /\ ~languageSwitcher.bodyRtl
  /\ languageSwitcher.lang = "fr" /\ ~languageSwitcher.isOpen
====
